---- MODULE Spec2Model ----
(***************************************************************************)
(* Model of streamlit_app.py: the Client PnL Dashboard script.             *)
(*                                                                         *)
(* One run of the script is the chain                                      *)
(*   Fetch -> ListClients -> Detect -> Normalize -> Metrics -> Streaks     *)
(*         -> Render                                                       *)
(* and Streamlit runs the script again from the top whenever the user      *)
(* picks another entry of the select box (Reselect).  A run ends early at  *)
(* st.stop() (lines 23, 41), at the st.warning of line 74, or at an        *)
(* uncaught Python exception.                                              *)
(*                                                                         *)
(* Cells of the sheet are tagged values [k, s, n]: text ("str"), number    *)
(* ("num"), Excel date ("ts", n = YYYYMMDD), empty cell ("nan").  Numbers  *)
(* are integers; ratios and means are exact fractions <<num, den>>.        *)
(***************************************************************************)
EXTENDS Integers, Sequences, FiniteSets, TLC

VARIABLES
    env,               \* what the Drive lookup will find: "ok", "no_secret", "no_file"
    sheet,             \* contents of the remote sheet "Clients Daily PNL"
    choice,            \* the select box's widget state, kept across reruns
    pc,                \* position of the running script
    df_raw,            \* line 58
    clients,           \* line 62
    selected_client,   \* line 64
    client_col_index,  \* lines 67-71
    data,              \* lines 77-83: sequence of [Date, PNL]
    cum_pnl,           \* line 87
    drawdown,          \* line 89
    metrics,           \* lines 95-132: <<>> until built, then <<record>>
    monthwise,         \* lines 154-156
    outcome,           \* how the current run ended
    prev_outcome       \* how the run before this one ended (the page being replaced)

vars == <<env, sheet, choice, pc, df_raw, clients, selected_client,
          client_col_index, data, cum_pnl, drawdown, metrics, monthwise,
          outcome, prev_outcome>>

----------------------------------------------------------------------------
(* Bounds of the model *)

MaxDataRows == 3
NumCols == 3

----------------------------------------------------------------------------
(* Cell values *)

Str(x) == [k |-> "str", s |-> x, n |-> 0]
Num(x) == [k |-> "num", s |-> "", n |-> x]
Ts(x) == [k |-> "ts", s |-> "", n |-> x]
NaN == [k |-> "nan", s |-> "", n |-> 0]
NoneVal == [k |-> "none", s |-> "", n |-> 0]

\* Python's == between two scalars: NaN equals nothing, not even itself.
PyEq(a, b) == a = b /\ a.k # "nan"

Cols == 0 .. (NumCols - 1)

\* df_raw.iloc[r, c] with 0-based r and c; a table is a sequence of rows,
\* a row is a function on Cols.
ILoc(df, r, c) == df[r + 1][c]

----------------------------------------------------------------------------
(* Sequence helpers *)

RECURSIVE SumSeq(_)
SumSeq(s) == IF s = <<>> THEN 0 ELSE s[1] + SumSeq(Tail(s))

SetMax(S) == CHOOSE x \in S : \A y \in S : y <= x
SetMin(S) == CHOOSE x \in S : \A y \in S : x <= y

Abs(x) == IF x < 0 THEN -x ELSE x

\* Exact fractions
Frac(a, b) == <<a, b>>
FracIsZero(f) == f[1] = 0
FracMul(f, g) == <<f[1] * g[1], f[2] * g[2]>>
FracDiv(f, g) == <<f[1] * g[2], f[2] * g[1]>>
FracAdd(f, g) == <<f[1] * g[2] + g[1] * f[2], f[2] * g[2]>>
FracAbs(f) == <<Abs(f[1]), Abs(f[2])>>

----------------------------------------------------------------------------
(* Lines 60-64: the client list and the select box *)

Reserved == {"Date", "Day", "Month"}

\* Python's order on the labels that occur in row 0.
LabelOrder == <<"A", "B", "Date", "Day", "Month">>

InSet(S) == [x \in {LabelOrder[i] : i \in 1 .. Len(LabelOrder)} |-> x \in S]

SortedLabels(S) ==
    LET member == InSet(S)
        Keep(x) == member[x]
    IN SelectSeq(LabelOrder, Keep)

\* sorted(set(x for x in client_row if isinstance(x, str) and x not in [...]))
ClientList(client_row) ==
    SortedLabels({client_row[c].s : c \in {d \in Cols :
                     client_row[d].k = "str" /\ client_row[d].s \notin Reserved}})

SeqRange(s) == {s[i] : i \in 1 .. Len(s)}

\* st.selectbox: the widget's value if it is still an option, else option 0,
\* and None when there are no options.
SelectBox(options, widget) ==
    IF options = <<>> THEN NoneVal
    ELSE IF widget \in SeqRange(options) THEN Str(widget)
    ELSE Str(options[1])

----------------------------------------------------------------------------
(* Lines 66-71: the column of the client's Daily PNL *)

\* The loop's condition at column i.  `and' short-circuits: row 1 is read only
\* when row 0 matches, and reading it from a one-row table raises IndexError.
RaisesAt(df, sel, i) == PyEq(df[1][i], sel) /\ Len(df) < 2

\* The condition without its test of row 1.
MatchesRow0Only(df, sel, i) == PyEq(df[1][i], sel)

MatchesAt(df, sel, i) ==
    PyEq(df[1][i], sel) /\ PyEq(ILoc(df, 1, i), Str("Daily PNL"))

\* The scan leaving the last column's index behind when nothing matched.
RECURSIVE ScanKeepsLast(_, _, _)
ScanKeepsLast(df, sel, i) ==
    IF i > NumCols - 1 THEN [raised |-> FALSE, index |-> Num(NumCols - 1)]
    ELSE IF RaisesAt(df, sel, i) THEN [raised |-> TRUE, index |-> NoneVal]
    ELSE IF MatchesAt(df, sel, i) THEN [raised |-> FALSE, index |-> Num(i)]
    ELSE ScanKeepsLast(df, sel, i + 1)

\* Result of the scan: [raised, index]; index is NoneVal when the loop ends
\* without a break.
RECURSIVE ScanFrom(_, _, _)
ScanFrom(df, sel, i) ==
    IF i > NumCols - 1 THEN [raised |-> FALSE, index |-> NoneVal]
    ELSE IF RaisesAt(df, sel, i) THEN [raised |-> TRUE, index |-> NoneVal]
    ELSE IF MatchesAt(df, sel, i) THEN [raised |-> FALSE, index |-> Num(i)]
    ELSE ScanFrom(df, sel, i + 1)

DetectColumn(df, sel) == ScanFrom(df, sel, 0)

----------------------------------------------------------------------------
(* Lines 76-83: extraction, coercion, dropna, sort *)

\* Text cells that pandas parses: the date strings and numeric strings that
\* occur in the sheets of the model.
DateText == [x \in {"2024-01-25"} |-> 20240125]
NumText == [x \in {"5"} |-> 5]

\* pd.to_datetime(cell, errors='coerce'): a timestamp, or NaT (as NaN).
\* A bare number is taken as nanoseconds since the epoch.
ToDatetime(cell) ==
    CASE cell.k = "ts" -> cell
      [] cell.k = "str" ->
            IF cell.s \in DOMAIN DateText THEN Ts(DateText[cell.s]) ELSE NaN
      [] cell.k = "num" -> IF cell.n >= 0 THEN Ts(19700101) ELSE Ts(19691231)
      [] OTHER -> NaN

\* pd.to_numeric(cell, errors='coerce'): a number, or NaN.
ToNumeric(cell) ==
    CASE cell.k = "num" -> cell
      [] cell.k = "str" ->
            IF cell.s \in DOMAIN NumText THEN Num(NumText[cell.s]) ELSE NaN
      [] OTHER -> NaN

\* The same extraction reading column 1 whatever the client's column is.
ExtractSecondColumn(df, c) ==
    [r \in 1 .. (Len(df) - 2) |->
        [Date |-> ToDatetime(ILoc(df, r + 1, 0)),
         PNL |-> ToNumeric(ILoc(df, r + 1, 1))]]

\* data = df_raw[[0, client_col_index]]; data = data[2:]; both coercions.
\* One entry per sheet row from index 2 on, still in sheet order.
Extract(df, c) ==
    [r \in 1 .. (Len(df) - 2) |->
        [Date |-> ToDatetime(ILoc(df, r + 1, 0)),
         PNL |-> ToNumeric(ILoc(df, r + 1, c))]]

\* data.dropna(): rows with a NaT date or a NaN value go; the rest become
\* plain (date, value) pairs.
NotNa(row) == row.Date.k # "nan" /\ row.PNL.k # "nan"

DropNa(rows) ==
    LET kept == SelectSeq(rows, NotNa)
    IN [i \in 1 .. Len(kept) |-> [Date |-> kept[i].Date.n, PNL |-> kept[i].PNL.n]]

\* data.sort_values('Date'): kind is left at its default, 'quicksort', which
\* pandas documents as not stable: only the ascending order of the key is
\* promised, and rows with equal dates may come out in any order.  (numpy's
\* introsort finishes short ranges by insertion sort, so ties stay in place
\* on short series and move once a range is partitioned, from about 18 rows
\* on.)  The sheets here are short, so the model takes the library's contract:
\* every ascending arrangement of the rows is a possible result.
RECURSIVE SortsOf(_, _)
SortsOf(rows, S) ==
    IF S = {} THEN {<<>>}
    ELSE LET first == {i \in S : \A j \in S : rows[i].Date <= rows[j].Date}
         IN UNION {{<<rows[i]>> \o t : t \in SortsOf(rows, S \ {i})} : i \in first}

SortValues(rows) == SortsOf(rows, DOMAIN rows)

----------------------------------------------------------------------------
(* Lines 86-109: the metrics *)

PnlOf(d) == [i \in 1 .. Len(d) |-> d[i].PNL]

\* pnl.cumsum()
RECURSIVE CumSumFrom(_, _, _)
CumSumFrom(s, i, acc) ==
    IF i > Len(s) THEN <<>>
    ELSE <<acc + s[i]>> \o CumSumFrom(s, i + 1, acc + s[i])

CumSum(s) == CumSumFrom(s, 1, 0)

\* cum_pnl.cummax()
RECURSIVE CumMaxFrom(_, _, _)
CumMaxFrom(s, i, best) ==
    IF i > Len(s) THEN <<>>
    ELSE LET b == IF s[i] > best THEN s[i] ELSE best
         IN <<b>> \o CumMaxFrom(s, i + 1, b)

\* The running minimum in place of the running maximum.
RECURSIVE CumMinFrom(_, _, _)
CumMinFrom(s, i, best) ==
    IF i > Len(s) THEN <<>>
    ELSE LET b == IF s[i] < best THEN s[i] ELSE best
         IN <<b>> \o CumMinFrom(s, i + 1, b)

CumMin(s) == IF s = <<>> THEN <<>> ELSE CumMinFrom(s, 1, s[1])

CumMax(s) == IF s = <<>> THEN <<>> ELSE CumMaxFrom(s, 1, s[1])

\* cum_pnl - high_water_mark
SeqMinus(a, b) == [i \in 1 .. Len(a) |-> a[i] - b[i]]

IsWin(x) == x > 0
IsLoss(x) == x < 0

\* The win filter with >= in place of >.
WinDaysNonNegative(pnl) ==
    LET Keep(x) == x >= 0 IN SelectSeq(pnl, Keep)

\* pnl[pnl > 0], pnl[pnl < 0]
WinDays(pnl) == SelectSeq(pnl, IsWin)
LossDays(pnl) == SelectSeq(pnl, IsLoss)

\* The dict of lines 95-109, for a non-empty pnl.
MetricsRecord(pnl, dd) ==
    LET win == WinDays(pnl)
        loss == LossDays(pnl)
        total == Len(pnl)
    IN [TotalPNL |-> SumSeq(pnl),
        WinDays |-> Len(win),
        LossDays |-> Len(loss),
        WinRatio |-> IF total # 0 THEN Frac(Len(win) * 100, total) ELSE Frac(0, 1),
        LossRatio |-> IF total # 0 THEN Frac(Len(loss) * 100, total) ELSE Frac(0, 1),
        AvgProfit |-> IF win # <<>> THEN Frac(SumSeq(win), Len(win)) ELSE Frac(0, 1),
        AvgLoss |-> IF loss # <<>> THEN Frac(SumSeq(loss), Len(loss)) ELSE Frac(0, 1),
        TotalProfit |-> SumSeq(win),
        TotalLoss |-> SumSeq(loss),
        MaxProfit |-> IF win # <<>> THEN SetMax(SeqRange(win)) ELSE 0,
        MaxLoss |-> IF loss # <<>> THEN SetMin(SeqRange(loss)) ELSE 0,
        MaxDrawdown |-> SetMin(SeqRange(dd)),
        CurrentDrawdown |-> dd[Len(dd)]]

----------------------------------------------------------------------------
(* Lines 111-132: streaks, risk reward, expectancy *)

\* np.sign
Sign(x) == IF x > 0 THEN 1 ELSE IF x < 0 THEN -1 ELSE 0

StreakInit == [win |-> 0, loss |-> 0, max_win |-> 0, max_loss |-> 0]

\* The same loop body without the else branch of line 122.
StreakStepNoReset(st, val) ==
    LET w == IF val > 0 THEN st.win + 1 ELSE IF val < 0 THEN 0 ELSE st.win
        l == IF val > 0 THEN 0 ELSE IF val < 0 THEN st.loss + 1 ELSE st.loss
    IN [win |-> w, loss |-> l,
        max_win |-> IF w > st.max_win THEN w ELSE st.max_win,
        max_loss |-> IF l > st.max_loss THEN l ELSE st.max_loss]

\* One iteration of the loop of lines 114-124.
StreakStep(st, val) ==
    LET w == IF val > 0 THEN st.win + 1 ELSE 0
        l == IF val > 0 THEN 0 ELSE IF val < 0 THEN st.loss + 1 ELSE 0
    IN [win |-> w, loss |-> l,
        max_win |-> IF w > st.max_win THEN w ELSE st.max_win,
        max_loss |-> IF l > st.max_loss THEN l ELSE st.max_loss]

\* The loop's variables after its first k iterations over pnl.
RECURSIVE StreakScan(_, _)
StreakScan(pnl, k) ==
    IF k = 0 THEN StreakInit ELSE StreakStep(StreakScan(pnl, k - 1), Sign(pnl[k]))

\* Lines 126-132: the four entries added to the dict.
WithStreaks(m, pnl) ==
    LET st == StreakScan(pnl, Len(pnl))
    IN m @@ [MaxWinStreak |-> st.max_win,
             MaxLossStreak |-> st.max_loss,
             RiskReward |-> IF ~FracIsZero(m.AvgLoss)
                              THEN FracAbs(FracDiv(m.AvgProfit, m.AvgLoss))
                              ELSE Frac(0, 1),
             Expectancy |-> FracAdd(
                 FracMul(FracDiv(m.WinRatio, Frac(100, 1)), m.AvgProfit),
                 FracMul(FracDiv(m.LossRatio, Frac(100, 1)), m.AvgLoss))]

----------------------------------------------------------------------------
(* Lines 153-157: month-wise PNL *)

\* The same with a daily period, to_period('D').
ToPeriodD(d) == d

\* data['Date'].dt.to_period('M'): the date YYYYMMDD cut to YYYYMM.
ToPeriodM(d) == d \div 100

\* Period.astype(str): "YYYY-MM", kept as the pair <<year, month>>.
PeriodStr(p) == <<p \div 100, p % 100>>

\* groupby('Month')['Daily PNL'].sum().reset_index(): one row per key, keys
\* ascending (groupby sorts its keys), the values of a key added up.
RECURSIVE GroupRows(_, _)
GroupRows(d, keys) ==
    IF keys = {} THEN <<>>
    ELSE LET key == SetMin(keys)
             InKey(row) == ToPeriodM(row.Date) = key
         IN <<[Month |-> key, PNL |-> SumSeq(PnlOf(SelectSeq(d, InKey)))]>>
            \o GroupRows(d, keys \ {key})

MonthWise(d) ==
    LET grouped == GroupRows(d, {ToPeriodM(d[i].Date) : i \in 1 .. Len(d)})
    IN [i \in 1 .. Len(grouped) |->
           [Month |-> PeriodStr(grouped[i].Month), PNL |-> grouped[i].PNL]]

----------------------------------------------------------------------------
(* The sheets the model is run on *)

\* Header layouts of every shape, with no data row or one.
Row0Cells == {Str("Date"), Str("A"), Str("B"), NaN}
Row1Cells == {Str("Daily PNL"), Str("Other")}
ProbeRow == [c \in Cols |-> IF c = 0 THEN Ts(20240110) ELSE Num(c)]

HeaderSheets ==
    {<<>>}
    \cup {<<r0>> : r0 \in [Cols -> Row0Cells]}
    \cup {<<r0, r1>> : r0 \in [Cols -> Row0Cells], r1 \in [Cols -> Row1Cells]}
    \cup {<<r0, r1, ProbeRow>> : r0 \in [Cols -> Row0Cells], r1 \in [Cols -> Row1Cells]}

\* One client's ledger: its Daily PNL in the last column, another field of
\* the same client before it, and data rows of every kind.
LedgerRow0 == [c \in Cols |-> IF c = 0 THEN Str("Date") ELSE Str("A")]
LedgerRow1 ==
    [c \in Cols |-> IF c = 0 THEN NaN
                    ELSE IF c = NumCols - 1 THEN Str("Daily PNL") ELSE Str("Other")]

RowKinds ==
    ({Ts(20240110), Ts(20240205)} \X {Num(-3), Num(0), Num(2)})
    \cup {<<Str("2024-01-25"), Str("5")>>,
          <<Ts(20240110), Str("x")>>,
          <<Ts(20240205), NaN>>,
          <<NaN, Num(2)>>,
          <<Str("n/a"), Num(-3)>>}

LedgerRow(kind) ==
    [c \in Cols |-> IF c = 0 THEN kind[1]
                    ELSE IF c = NumCols - 1 THEN kind[2] ELSE Num(9)]

LedgerSheets ==
    UNION {{<<LedgerRow0, LedgerRow1>> \o [i \in 1 .. n |-> LedgerRow(kinds[i])] :
                kinds \in [1 .. n -> RowKinds]} : n \in 0 .. MaxDataRows}

Sheets == HeaderSheets \cup LedgerSheets

----------------------------------------------------------------------------
(* The script *)

Init ==
    /\ env \in {"ok", "no_secret", "no_file"}
    /\ sheet \in (IF env = "ok" THEN Sheets ELSE {<<>>})
    /\ choice = ""
    /\ pc = "start"
    /\ df_raw = <<>>
    /\ clients = <<>>
    /\ selected_client = NoneVal
    /\ client_col_index = NoneVal
    /\ data = <<>>
    /\ cum_pnl = <<>>
    /\ drawdown = <<>>
    /\ metrics = <<>>
    /\ monthwise = <<>>
    /\ outcome = "running"
    /\ prev_outcome = "none"

\* Lines 21-58: st.error and st.stop without the secret or without the file,
\* else the sheet is read with header=None.
Fetch ==
    /\ pc = "start"
    /\ IF env = "ok"
         THEN /\ df_raw' = sheet
              /\ pc' = "loaded"
              /\ outcome' = outcome
         ELSE /\ df_raw' = df_raw
              /\ pc' = "done"
              /\ outcome' = "SourceUnavailable"
    /\ UNCHANGED <<env, sheet, choice, clients, selected_client, client_col_index,
                   data, cum_pnl, drawdown, metrics, monthwise, prev_outcome>>

\* Lines 61-64: df_raw.iloc[0] raises IndexError on a sheet without rows.
ListClients ==
    /\ pc = "loaded"
    /\ IF Len(df_raw) = 0
         THEN /\ pc' = "done"
              /\ outcome' = "IndexError"
              /\ UNCHANGED <<clients, selected_client>>
         ELSE /\ clients' = ClientList(df_raw[1])
              /\ selected_client' = SelectBox(clients', choice)
              /\ pc' = "selected"
              /\ outcome' = outcome
    /\ UNCHANGED <<env, sheet, choice, df_raw, client_col_index, data, cum_pnl,
                   drawdown, metrics, monthwise, prev_outcome>>

\* Lines 66-75.
Detect ==
    /\ pc = "selected"
    /\ LET found == DetectColumn(df_raw, selected_client)
       IN IF found.raised
            THEN /\ pc' = "done"
                 /\ outcome' = "IndexError"
                 /\ client_col_index' = client_col_index
            ELSE /\ client_col_index' = found.index
                 /\ IF found.index = NoneVal
                      THEN pc' = "done" /\ outcome' = "NotFound"
                      ELSE pc' = "detected" /\ outcome' = outcome
    /\ UNCHANGED <<env, sheet, choice, df_raw, clients, selected_client, data,
                   cum_pnl, drawdown, metrics, monthwise, prev_outcome>>

\* Lines 77-83.
Normalize ==
    /\ pc = "detected"
    /\ data' \in SortValues(DropNa(Extract(df_raw, client_col_index.n)))
    /\ pc' = "normalized"
    /\ UNCHANGED <<env, sheet, choice, df_raw, clients, selected_client,
                   client_col_index, cum_pnl, drawdown, metrics, monthwise,
                   outcome, prev_outcome>>

\* Lines 86-109.  On an empty series drawdown.min() is NaN and
\* drawdown.iloc[-1] raises IndexError, so the dict is never bound.
Metrics ==
    /\ pc = "normalized"
    /\ cum_pnl' = CumSum(PnlOf(data))
    /\ drawdown' = SeqMinus(cum_pnl', CumMax(cum_pnl'))
    /\ IF Len(data) = 0
         THEN /\ pc' = "done"
              /\ outcome' = "IndexError"
              /\ metrics' = metrics
         ELSE /\ metrics' = <<MetricsRecord(PnlOf(data), drawdown')>>
              /\ pc' = "metrics"
              /\ outcome' = outcome
    /\ UNCHANGED <<env, sheet, choice, df_raw, clients, selected_client,
                   client_col_index, data, monthwise, prev_outcome>>

\* Lines 111-132.
Streaks ==
    /\ pc = "metrics"
    /\ metrics' = <<WithStreaks(metrics[1], PnlOf(data))>>
    /\ pc' = "streaks"
    /\ UNCHANGED <<env, sheet, choice, df_raw, clients, selected_client,
                   client_col_index, data, cum_pnl, drawdown, monthwise,
                   outcome, prev_outcome>>

\* Lines 134-157: the table, the two charts, the month-wise table.
Render ==
    /\ pc = "streaks"
    /\ monthwise' = MonthWise(data)
    /\ pc' = "done"
    /\ outcome' = "Rendered"
    /\ UNCHANGED <<env, sheet, choice, df_raw, clients, selected_client,
                   client_col_index, data, cum_pnl, drawdown, metrics,
                   prev_outcome>>

\* The user picks another client in the select box of line 64: Streamlit runs
\* the script again from the top, and nothing of the last run is kept but the
\* widget's value.
ReselectTo(c) ==
    /\ pc = "done"
    /\ c \in SeqRange(clients)
    /\ Str(c) # selected_client
    /\ choice' = c
    /\ pc' = "start"
    /\ df_raw' = <<>>
    /\ clients' = <<>>
    /\ selected_client' = NoneVal
    /\ client_col_index' = NoneVal
    /\ data' = <<>>
    /\ cum_pnl' = <<>>
    /\ drawdown' = <<>>
    /\ metrics' = <<>>
    /\ monthwise' = <<>>
    /\ prev_outcome' = outcome
    /\ outcome' = "running"
    /\ UNCHANGED <<env, sheet>>

Reselect == \E c \in SeqRange(LabelOrder) : ReselectTo(c)

Next ==
    \/ Fetch
    \/ ListClients
    \/ Detect
    \/ Normalize
    \/ Metrics
    \/ Streaks
    \/ Render
    \/ Reselect

Spec == Init /\ [][Next]_vars

----------------------------------------------------------------------------
(* Vocabulary of the properties *)

\* The script is past the column scan of a sheet that has both header rows.
Scanned == Len(df_raw) >= 2 /\ pc \notin {"start", "loaded", "selected"}

\* The script is past line 83: data holds the normalized series.
Normalized == Scanned /\ client_col_index # NoneVal /\ pc # "detected"

\* The script is past line 109 with the dict built.
MetricsBuilt == Normalized /\ metrics # <<>>

\* The script is past line 127.
StreaksBuilt == MetricsBuilt /\ pc \in {"streaks", "done"}

\* Columns whose row 0 is the client and whose row 1 is "Daily PNL".
DailyPnlColumns(df, sel) ==
    {c \in Cols : /\ sel.k = "str"
                  /\ df[1][c] = Str(sel.s)
                  /\ df[2][c] = Str("Daily PNL")}

\* Columns whose row 0 is the client, whatever row 1 says.
ClientColumns(df, sel) == {c \in Cols : sel.k = "str" /\ df[1][c] = Str(sel.s)}

Count(S) == Cardinality(S)

\* The values of the entries of series d dated day, in d's order.
ValuesOn(d, day) ==
    LET OnDay(row) == row.Date = day IN PnlOf(SelectSeq(d, OnDay))

\* The sheet's valid data rows as (date, value) pairs, in sheet order: sheet
\* row r (0-based, r >= 2) is valid when both of its cells parse.
SheetRowValid(df, c, r) ==
    ToDatetime(ILoc(df, r, 0)).k = "ts" /\ ToNumeric(ILoc(df, r, c)).k = "num"

SheetPair(df, c, r) ==
    [Date |-> ToDatetime(ILoc(df, r, 0)).n, PNL |-> ToNumeric(ILoc(df, r, c)).n]

ValidSheetRows(df, c) == {r \in 2 .. (Len(df) - 1) : SheetRowValid(df, c, r)}

RECURSIVE ValidPairsFrom(_, _, _)
ValidPairsFrom(df, c, r) ==
    IF r > Len(df) - 1 THEN <<>>
    ELSE (IF SheetRowValid(df, c, r) THEN <<SheetPair(df, c, r)>> ELSE <<>>)
         \o ValidPairsFrom(df, c, r + 1)

\* Longest run of consecutive entries of s satisfying sign sg (1 or -1).
LongestRun(s, sg) ==
    LET runs == {p \in (1 .. Len(s)) \X (1 .. Len(s)) :
                    p[1] <= p[2] /\ \A k \in p[1] .. p[2] : s[k] * sg > 0}
    IN SetMax({0} \cup {p[2] - p[1] + 1 : p \in runs})

\* Calendar year and month of a date YYYYMMDD.
YearMonth(d) == <<d \div 10000, (d \div 100) % 100>>

ZeroMetrics(m) ==
    /\ m.TotalPNL = 0 /\ m.WinDays = 0 /\ m.LossDays = 0
    /\ FracIsZero(m.WinRatio) /\ FracIsZero(m.LossRatio)
    /\ FracIsZero(m.AvgProfit) /\ FracIsZero(m.AvgLoss)
    /\ m.TotalProfit = 0 /\ m.TotalLoss = 0
    /\ m.MaxProfit = 0 /\ m.MaxLoss = 0
    /\ m.MaxDrawdown = 0 /\ m.CurrentDrawdown = 0
    /\ m.MaxWinStreak = 0 /\ m.MaxLossStreak = 0
    /\ FracIsZero(m.RiskReward) /\ FracIsZero(m.Expectancy)

----------------------------------------------------------------------------
(* C1 *)
\* C1: when the normalized series is empty (only the two header rows, or
\* every data row invalid), the run finishes without raising, every field of
\* the summary metrics is 0 and the month-wise table is empty.
C1_EmptySeriesAllZero ==
    (pc = "done" /\ Normalized /\ data = <<>>) =>
        /\ outcome = "Rendered"
        /\ metrics # <<>>
        /\ ZeroMetrics(metrics[1])
        /\ monthwise = <<>>

(* C2 *)
\* C2: when the sheet has fewer than 2 rows the run ends in the
\* SourceUnavailable error, before the client list and the column scan, and
\* with no series, metrics or month-wise table.
C2_ShortSheetUnavailable ==
    (pc = "done" /\ env = "ok" /\ Len(sheet) < 2) =>
        /\ outcome = "SourceUnavailable"
        /\ clients = <<>> /\ selected_client = NoneVal
        /\ client_col_index = NoneVal
        /\ data = <<>> /\ metrics = <<>> /\ monthwise = <<>>

(* C3 *)
\* C3: the column the scan chooses is the smallest index c with
\* row0[c] = selected client and row1[c] = "Daily PNL"; a column of the
\* client whose row 1 is another label is never chosen, also when it lies to
\* the left of the matching one.
C3_FirstDailyPnlColumn ==
    Scanned =>
        LET cols == DailyPnlColumns(df_raw, selected_client)
        IN IF cols = {} THEN client_col_index = NoneVal
           ELSE client_col_index = Num(SetMin(cols))

\* A column of the client with another label stands left of the chosen one.
C3_Witness ==
    /\ Scanned
    /\ client_col_index # NoneVal
    /\ \E c \in ClientColumns(df_raw, selected_client) :
          c < client_col_index.n /\ df_raw[2][c] # Str("Daily PNL")

(* C4 *)
\* C4: when no column has row 0 equal to the selected client and row 1 equal
\* to "Daily PNL", the run ends NotFound without entering the metrics: no
\* series, no metrics, no month-wise table; and every other client of the
\* select box can still be picked for a new run.
C4_NotFoundStopsBeforeMetrics ==
    (Scanned /\ pc = "done" /\ DailyPnlColumns(df_raw, selected_client) = {}) =>
        /\ outcome = "NotFound"
        /\ client_col_index = NoneVal
        /\ data = <<>> /\ cum_pnl = <<>> /\ drawdown = <<>>
        /\ metrics = <<>> /\ monthwise = <<>>
        /\ \A c \in SeqRange(clients) :
              Str(c) # selected_client => ENABLED ReselectTo(c)

\* A run that rendered a client right after a run that ended NotFound.
C4_Witness ==
    /\ prev_outcome = "NotFound"
    /\ pc = "done"
    /\ outcome = "Rendered"

(* C5 *)
\* C5: the normalized series holds exactly the data rows (index >= 2) whose
\* column-0 cell parses as a date and whose cell in the selected column
\* parses as a number, each value with the date of its own row; a row failing
\* either parse is left out and the run goes on.
C5_ExactlyValidRows ==
    Normalized =>
        LET c == client_col_index.n
            rows == ValidSheetRows(df_raw, c)
            pairs == {SheetPair(df_raw, c, r) : r \in rows} \cup SeqRange(data)
        IN /\ Len(data) = Count(rows)
           /\ \A p \in pairs :
                 Count({i \in 1 .. Len(data) : data[i] = p})
                   = Count({r \in rows : SheetPair(df_raw, c, r) = p})

\* A malformed row between two valid ones: the two are kept.
C5_Witness ==
    /\ Normalized
    /\ Len(df_raw) = 5
    /\ ~SheetRowValid(df_raw, client_col_index.n, 3)
    /\ Len(data) = 2
    /\ data[1].PNL # data[2].PNL

(* C6 *)
\* C6: the normalized series is ascending by date, and the kept rows of one
\* date stand in the order they have in the sheet, none of them lost.
C6_StableAscending ==
    Normalized =>
        LET raw == ValidPairsFrom(df_raw, client_col_index.n, 2)
        IN /\ \A i \in 1 .. (Len(data) - 1) : data[i].Date <= data[i + 1].Date
           /\ \A i \in 1 .. Len(raw) :
                 ValuesOn(data, raw[i].Date) = ValuesOn(raw, raw[i].Date)

(* C7 *)
\* C7: Max Winning Streak is the length of the longest run of consecutive
\* strictly positive values, Max Losing Streak that of strictly negative
\* ones, a zero ending both runs; in the scan a positive value increments
\* win_streak and resets loss_streak, a negative one the mirror, a zero
\* resets both; and [5, 3, 0, -2, -4] gives 2 and 2.
C7_StreaksAreLongestRuns ==
    StreaksBuilt =>
        LET pnl == PnlOf(data)
        IN /\ metrics[1].MaxWinStreak = LongestRun(pnl, 1)
           /\ metrics[1].MaxLossStreak = LongestRun(pnl, -1)
           /\ \A k \in 1 .. Len(pnl) :
                 LET before == StreakScan(pnl, k - 1)
                     after == StreakScan(pnl, k)
                 IN /\ pnl[k] > 0 =>
                         after.win = before.win + 1 /\ after.loss = 0
                    /\ pnl[k] < 0 =>
                         after.loss = before.loss + 1 /\ after.win = 0
                    /\ pnl[k] = 0 => after.win = 0 /\ after.loss = 0
           /\ StreakScan(<<5, 3, 0, -2, -4>>, 5).max_win = 2
           /\ StreakScan(<<5, 3, 0, -2, -4>>, 5).max_loss = 2

\* A zero day between two winning days: the streak is 1, not 2.
C7_Witness ==
    /\ StreaksBuilt
    /\ Len(data) = 3
    /\ data[1].PNL > 0 /\ data[2].PNL = 0 /\ data[3].PNL > 0
    /\ metrics[1].MaxWinStreak = 1

(* C8 *)
\* C8: for every index i, drawdown[i] = cum_pnl[i] - max(cum_pnl[0..i]) and
\* is <= 0, cum_pnl being the running sum of pnl; so on a non-empty series
\* Max Drawdown <= Current Drawdown <= 0.
C8_DrawdownNonPositive ==
    (Normalized /\ pc \notin {"normalized"}) =>
        LET pnl == PnlOf(data)
            Cum(i) == SumSeq(SubSeq(pnl, 1, i))
        IN /\ Len(drawdown) = Len(pnl)
           /\ \A i \in 1 .. Len(pnl) :
                 /\ cum_pnl[i] = Cum(i)
                 /\ drawdown[i] = Cum(i) - SetMax({Cum(j) : j \in 1 .. i})
                 /\ drawdown[i] <= 0
           /\ Len(pnl) > 0 =>
                 /\ metrics[1].MaxDrawdown <= metrics[1].CurrentDrawdown
                 /\ metrics[1].CurrentDrawdown <= 0

\* A series that fell from its high-water mark and recovered in part.
C8_Witness ==
    /\ MetricsBuilt
    /\ metrics[1].MaxDrawdown < metrics[1].CurrentDrawdown
    /\ metrics[1].CurrentDrawdown < 0

(* C9 *)
\* C9: the month-wise table has exactly one entry per calendar year-month
\* present in the series, each entry's total is the sum of the values dated
\* in that month, and the entries are in chronological order.
C9_MonthlyTotals ==
    (pc = "done" /\ outcome = "Rendered") =>
        LET months == {YearMonth(data[i].Date) : i \in 1 .. Len(data)}
            Total(m) ==
                LET InMonth(row) == YearMonth(row.Date) = m
                IN SumSeq(PnlOf(SelectSeq(data, InMonth)))
            Before(a, b) == a[1] < b[1] \/ (a[1] = b[1] /\ a[2] < b[2])
        IN /\ Len(monthwise) = Count(months)
           /\ {monthwise[i].Month : i \in 1 .. Len(monthwise)} = months
           /\ \A i \in 1 .. Len(monthwise) :
                 monthwise[i].PNL = Total(monthwise[i].Month)
           /\ \A i \in 1 .. (Len(monthwise) - 1) :
                 Before(monthwise[i].Month, monthwise[i + 1].Month)

\* Two days of one month and one of the next: two entries, in that order.
C9_Witness ==
    /\ pc = "done" /\ outcome = "Rendered"
    /\ Len(data) = 3
    /\ Len(monthwise) = 2
    /\ monthwise[1].Month = <<2024, 1>>
    /\ monthwise[1].PNL = data[1].PNL + data[2].PNL
    /\ data[1].Date # data[2].Date
    /\ monthwise[2].Month = <<2024, 2>>

(* C10 *)
\* C10: Win Days + Loss Days <= n, with equality exactly when no day of the
\* series is zero: a zero day counts in neither, no day counts in both.
C10_WinLossPartition ==
    MetricsBuilt =>
        LET pnl == PnlOf(data)
            n == Len(pnl)
            m == metrics[1]
        IN /\ m.WinDays + m.LossDays <= n
           /\ (m.WinDays + m.LossDays = n) <=> (\A i \in 1 .. n : pnl[i] # 0)
           /\ m.WinDays = Count({i \in 1 .. n : pnl[i] > 0})
           /\ m.LossDays = Count({i \in 1 .. n : pnl[i] < 0})

\* A series with a zero day, a winning day and a losing day.
C10_Witness ==
    /\ MetricsBuilt
    /\ \E i \in 1 .. Len(data) : data[i].PNL = 0
    /\ metrics[1].WinDays = 1 /\ metrics[1].LossDays = 1
    /\ Len(data) = 3

====
